---- MODULE Spec2Model ----
(***************************************************************************)
(* Model of the authentication request handlers of Arcane-Scribe           *)
(* (api_backend/routers/auth.py and api_backend/routers/login.py).         *)
(*                                                                         *)
(* A request occupies a slot and advances in steps: dependency resolution  *)
(* (the require_admin_user gate of the admin-only routes), then one step   *)
(* per call to the identity client adapter, the last of which also builds  *)
(* the HTTP response.  The user pool behind the adapter is the only state  *)
(* that outlives a request.                                                *)
(***************************************************************************)
EXTENDS Integers, Sequences, FiniteSets, TLC

VARIABLES pool, pending, req, hist, stack

vars == <<pool, pending, req, hist, stack>>

(***************************************************************************)
(* Bounds and value sets                                                   *)
(***************************************************************************)
\* Number of distinct session tokens the provider can have outstanding.
MaxSessions == 2

Usernames == {"alice", "bob"}
Passwords == {"pw1", "pw2"}
Groups == {"admins", "users"}
Slots == {1}

\* Python's None where a string is expected / the empty session token.
NoSession == <<>>
\* Session tokens the provider issues, and one it never issued.
Sess(i) == <<"sess", i>>
IssuedSessions == {Sess(i) : i \in 1..MaxSessions}
ForgedSession == <<"forged">>
\* Python's None where a dict is expected.
None == [py_none |-> TRUE]

\* Bearer credentials a caller may present.
Bearers == {"missing", "invalid", "user", "admin"}

(***************************************************************************)
(* Exceptions the adapter can raise                                        *)
(***************************************************************************)
AuthFailure == "NotAuthorizedException"
ChallengeFailure == "CodeMismatchException"
DuplicateUser == "UsernameExistsException"
UserNotFound == "UserNotFoundException"
\* Uncategorised failures: one that is a botocore ClientError, one that is not.
OtherClientError == "TooManyRequestsException"
OtherError == "EndpointConnectionError"
NoExc == "none"

Faults == {OtherClientError, OtherError}
TaxonomyExcs == {AuthFailure, ChallengeFailure, DuplicateUser, UserNotFound}

\* isinstance(e, ClientError)
IsClientError(e) == e \in TaxonomyExcs \cup {OtherClientError}

\* str(e): the text of an exception, as it appears when formatted.
Str(e) == e

(***************************************************************************)
(* The managed identity provider behind the adapter                        *)
(***************************************************************************)
Absent == [status |-> "ABSENT", password |-> "-", groups |-> {}]

Exists(p, u) == p[u].status # "ABSENT"

\* The token bundle issued to principal u.
Tokens(u) == [AccessToken |-> <<"access", u>>,
              IdToken |-> <<"id", u>>,
              RefreshToken |-> <<"refresh", u>>]

Ok(value, p, pend) == [exc |-> NoExc, value |-> value, pool |-> p, pending |-> pend]
Raise(e, p, pend) == [exc |-> e, value |-> None, pool |-> p, pending |-> pend]

\* Session tokens not outstanding for any user.
FreeSessions(pend) == {s \in IssuedSessions : \A u \in Usernames : <<u, s>> \notin pend}

\* initiate_auth: tokens, or a NEW_PASSWORD_REQUIRED challenge with session s.
cognito_admin_initiate_auth(p, pend, u, pw, s) ==
  IF ~Exists(p, u) \/ p[u].password # pw
    THEN Raise(AuthFailure, p, pend)
  ELSE IF p[u].status = "FORCE_CHANGE_PASSWORD"
    THEN Ok([ChallengeName |-> "NEW_PASSWORD_REQUIRED", Session |-> s],
            p, pend \cup {<<u, s>>})
  ELSE Ok([AuthenticationResult |-> Tokens(u)], p, pend)

\* respond_to_challenge: succeeds only for an outstanding (username, session).
cognito_admin_respond_to_auth_challenge(p, pend, u, s, newpw) ==
  IF <<u, s>> \in pend /\ Exists(p, u)
    THEN Ok([AuthenticationResult |-> Tokens(u)],
            [p EXCEPT ![u].status = "CONFIRMED", ![u].password = newpw],
            {c \in pend : c[1] # u})
  ELSE Raise(ChallengeFailure, p, pend)

\* admin_create_user: a new user must change the temporary password.
cognito_admin_create_user(p, pend, u, pw) ==
  IF Exists(p, u)
    THEN Raise(DuplicateUser, p, pend)
  ELSE Ok([Username |-> u, UserCreateDate |-> "date"],
          [p EXCEPT ![u] = [status |-> "FORCE_CHANGE_PASSWORD",
                            password |-> pw, groups |-> {}]],
          pend)

cognito_admin_add_user_to_group(p, pend, u, g) ==
  IF ~Exists(p, u)
    THEN Raise(UserNotFound, p, pend)
  ELSE Ok(None, [p EXCEPT ![u].groups = @ \cup {g}], pend)

cognito_admin_delete_user(p, pend, u) ==
  IF ~Exists(p, u)
    THEN Raise(UserNotFound, p, pend)
  ELSE Ok(None, [p EXCEPT ![u] = Absent], {c \in pend : c[1] # u})

\* admin_list_users: the user summaries, possibly none.
cognito_admin_list_users(p, pend) ==
  Ok([users |-> {u \in Usernames : Exists(p, u)}], p, pend)

(***************************************************************************)
(* Authorization gate                                                      *)
(***************************************************************************)
\* require_admin_user: the Admin Identity, or Unauthorized (401/403).
require_admin_user(bearer) ==
  CASE bearer = "admin" -> [ok |-> TRUE, status |-> 0]
    [] bearer = "user" -> [ok |-> FALSE, status |-> 403]
    [] OTHER -> [ok |-> FALSE, status |-> 401]

(***************************************************************************)
(* HTTP responses                                                          *)
(***************************************************************************)
\* JSONResponse(status_code=..., content=...)
JSONResponse(status, content) ==
  [status |-> status, body |-> content, detail |-> <<>>, uncaught |-> FALSE]

\* raise HTTPException(status_code=..., detail=...)
HTTPException(status, detail) ==
  [status |-> status, body |-> None, detail |-> detail, uncaught |-> FALSE]

\* An exception that leaves the handler: the framework answers 500.
Propagated(e) ==
  [status |-> 500, body |-> None, detail |-> <<"Internal Server Error">>,
   uncaught |-> TRUE]

NoResponse == [status |-> 0, body |-> None, detail |-> <<>>, uncaught |-> FALSE]

\* dict.get(key) for a string value and for a dict value.
GetStr(d, k) == IF k \in DOMAIN d THEN d[k] ELSE "None"
GetSession(d) == IF "Session" \in DOMAIN d THEN d.Session ELSE NoSession
GetDict(d, k) == IF k \in DOMAIN d THEN d[k] ELSE None

(***************************************************************************)
(* Request handlers: the arguments each hands to the adapter, and the      *)
(* response each builds from the adapter's outcome                         *)
(***************************************************************************)
\* Mutant: the delete route declared without the require_admin_user dependency.
RequiresAdmin_DeleteUngated(kind) == kind \in {"signup", "list_users"}

\* Routes declared with Depends(require_admin_user).
RequiresAdmin(kind) == kind \in {"signup", "delete_user", "list_users"}

\* POST /auth/login
login_call(r) ==
  [op |-> "admin_initiate_auth", username |-> r.username,
   password |-> r.password, session |-> NoSession, group |-> "-"]

\* Mutant: no check for a challenge in the adapter's answer.
login_NoChallengeCheck(r, out) ==
  IF out.exc # NoExc
    THEN HTTPException(401, <<"Incorrect username or password: ", Str(out.exc)>>)
  ELSE JSONResponse(200, GetDict(out.value, "AuthenticationResult"))

\* Mutant: the adapter's whole answer returned as the content.
login_RawContent(r, out) ==
  IF out.exc # NoExc
    THEN HTTPException(401, <<"Incorrect username or password: ", Str(out.exc)>>)
  ELSE IF GetStr(out.value, "ChallengeName") = "NEW_PASSWORD_REQUIRED"
    THEN JSONResponse(200, [ChallengeName |-> "NEW_PASSWORD_REQUIRED",
                            Session |-> GetSession(out.value),
                            username |-> r.username])
  ELSE JSONResponse(200, out.value)

\* Mutant: the session read under a key the adapter's answer does not have.
login_WrongSessionKey(r, out) ==
  IF out.exc # NoExc
    THEN HTTPException(401, <<"Incorrect username or password: ", Str(out.exc)>>)
  ELSE IF GetStr(out.value, "ChallengeName") = "NEW_PASSWORD_REQUIRED"
    THEN JSONResponse(200, [ChallengeName |-> "NEW_PASSWORD_REQUIRED",
                            Session |-> NoSession,
                            username |-> r.username])
  ELSE JSONResponse(200, GetDict(out.value, "AuthenticationResult"))

login_for_access_token(r, out) ==
  IF out.exc # NoExc
    THEN HTTPException(401, <<"Incorrect username or password: ", Str(out.exc)>>)
  ELSE IF GetStr(out.value, "ChallengeName") = "NEW_PASSWORD_REQUIRED"
    THEN JSONResponse(200, [ChallengeName |-> "NEW_PASSWORD_REQUIRED",
                            Session |-> GetSession(out.value),
                            username |-> r.username])
  ELSE JSONResponse(200, GetDict(out.value, "AuthenticationResult"))

\* POST /login (legacy)
legacy_login_call(r) ==
  [op |-> "admin_initiate_auth", username |-> r.username,
   password |-> r.password, session |-> NoSession, group |-> "-"]

legacy_login_for_access_token(r, out) ==
  IF out.exc # NoExc
    THEN HTTPException(401, <<"Incorrect username or password: ", Str(out.exc)>>)
  ELSE JSONResponse(200, out.value)

\* POST /auth/respond-to-challenge
respond_to_challenge_call(r) ==
  [op |-> "admin_respond_to_auth_challenge", username |-> r.username,
   password |-> r.new_password, session |-> r.session, group |-> "-"]

\* Mutant: a ClientError is logged and the handler still returns 200.
respond_to_challenge_NoRaise(r, out) ==
  IF out.exc = NoExc \/ IsClientError(out.exc)
    THEN JSONResponse(200, out.value)
  ELSE Propagated(out.exc)

respond_to_challenge(r, out) ==
  IF out.exc = NoExc
    THEN JSONResponse(200, out.value)
  ELSE IF IsClientError(out.exc)
    THEN HTTPException(400, <<Str(out.exc)>>)
  ELSE Propagated(out.exc)

\* POST /auth/signup
admin_create_user_call(r) ==
  [op |-> "admin_create_user", username |-> r.username,
   password |-> r.password, session |-> NoSession, group |-> "-"]

\* Mutant: the create call in a try block of its own that logs and goes on.
admin_create_user_proceeds_Always(e) == TRUE

\* The statements after the create call run only when it returned: an exception
\* raised inside the try block skips the rest of the block.
admin_create_user_proceeds(e) == e = NoExc

admin_add_user_to_group_call(r) ==
  [op |-> "admin_add_user_to_group", username |-> r.username,
   password |-> "-", session |-> NoSession, group |-> r.user_group]

\* Mutant: an existing user taken for a successful creation.
admin_create_user_except_ExistsIsSuccess(r, e) ==
  IF e = DuplicateUser
    THEN JSONResponse(201, [message |-> "User created successfully.",
                            user |-> [username |-> r.username,
                                      user_create_date |-> "None"]])
  ELSE HTTPException(500, <<"An unexpected error occurred while creating the user.">>)

\* Mutant: no except clause for UsernameExistsException.
admin_create_user_except_NoConflict(r, e) ==
  HTTPException(500, <<"An unexpected error occurred while creating the user.">>)

admin_create_user_except(r, e) ==
  IF e = DuplicateUser
    THEN HTTPException(409, <<"A user with this username already exists.">>)
  ELSE HTTPException(500, <<"An unexpected error occurred while creating the user.">>)

admin_create_user_return(r, user_info) ==
  JSONResponse(201, [message |-> "User created successfully.",
                     user |-> [username |-> GetStr(user_info, "Username"),
                               user_create_date |-> GetStr(user_info, "UserCreateDate")]])

\* DELETE /auth/delete-user/{username}
admin_delete_user_call(r) ==
  [op |-> "admin_delete_user", username |-> r.username,
   password |-> "-", session |-> NoSession, group |-> "-"]

\* Mutant: no except clause for UserNotFoundException.
admin_delete_user_NoNotFound(r, out) ==
  IF out.exc = NoExc
    THEN JSONResponse(204, [empty |-> TRUE])
  ELSE HTTPException(500, <<"An unexpected error occurred while deleting the user.">>)

admin_delete_user(r, out) ==
  IF out.exc = NoExc
    THEN JSONResponse(204, [empty |-> TRUE])
  ELSE IF out.exc = UserNotFound
    THEN HTTPException(404, <<"User not found.">>)
  ELSE HTTPException(500, <<"An unexpected error occurred while deleting the user.">>)

\* GET /auth/users
admin_list_users_call(r) ==
  [op |-> "admin_list_users", username |-> "-",
   password |-> "-", session |-> NoSession, group |-> "-"]

admin_list_users(r, out) ==
  IF out.exc # NoExc
    THEN HTTPException(500, <<"An unexpected error occurred while listing users.">>)
  ELSE IF out.value.users = {}
    THEN JSONResponse(200, [users |-> {}])
  ELSE JSONResponse(200, out.value)

(***************************************************************************)
(* Requests                                                                *)
(***************************************************************************)
Request(kind, u, pw, s, npw, g, b) ==
  [kind |-> kind, username |-> u, password |-> pw, session |-> s,
   new_password |-> npw, user_group |-> g, bearer |-> b,
   pc |-> IF RequiresAdmin(kind) THEN "gate" ELSE "handler",
   admin_ok |-> FALSE, calls |-> <<>>, excs |-> <<>>, exc |-> NoExc, ret |-> None,
   user_info |-> None,
   pre |-> [exists |-> FALSE, hist |-> "none", matched |-> FALSE],
   resp |-> NoResponse]

Idle == [Request("none", "-", "-", NoSession, "-", "-", "missing") EXCEPT !.pc = "idle"]

LoginRequests ==
  {Request("login", u, pw, NoSession, "-", "-", "missing") :
     u \in Usernames, pw \in Passwords}

LegacyLoginRequests ==
  {Request("legacy_login", u, pw, NoSession, "-", "-", "missing") :
     u \in Usernames, pw \in Passwords}

ChallengeRequests ==
  {Request("respond_to_challenge", u, "-", s, npw, "-", "missing") :
     u \in Usernames, s \in IssuedSessions \cup {ForgedSession}, npw \in Passwords}

SignupRequests ==
  {Request("signup", u, pw, NoSession, "-", g, b) :
     u \in Usernames, pw \in Passwords, g \in Groups, b \in Bearers}

DeleteRequests ==
  {Request("delete_user", u, "-", NoSession, "-", "-", b) :
     u \in Usernames, b \in Bearers}

ListRequests ==
  {Request("list_users", "-", "-", NoSession, "-", "-", b) : b \in Bearers}

Requests ==
  LoginRequests \cup LegacyLoginRequests \cup ChallengeRequests
    \cup SignupRequests \cup DeleteRequests \cup ListRequests

\* What the provider held about the request's user when the handler first
\* called the adapter (bookkeeping for the properties; the handlers never read it).
Snapshot(r) ==
  IF r.username \in Usernames
    THEN [exists |-> Exists(pool, r.username), hist |-> hist[r.username],
          matched |-> <<r.username, r.session>> \in pending]
    ELSE [exists |-> FALSE, hist |-> "none", matched |-> FALSE]

\* An adapter call answers as the provider does, or fails before reaching it.
Outcomes(contract) == {contract} \cup {Raise(f, pool, pending) : f \in Faults}

\* The handler of slot i returns (or raises) resp after its adapter call.
Respond(i, call, out, resp) ==
  /\ req' = [req EXCEPT ![i].pc = "done", ![i].calls = Append(@, call),
                        ![i].excs = Append(@, out.exc), ![i].exc = out.exc, ![i].ret = out.value,
                        ![i].resp = resp,
                        ![i].pre = IF req[i].calls = <<>> THEN Snapshot(req[i]) ELSE @]
  /\ pool' = out.pool
  /\ pending' = out.pending

(***************************************************************************)
(* Provisioning: the resources CognitoStack declares (cdk/cognito_stack.py) *)
(***************************************************************************)
Resources ==
  {"UserPool", "AppClient", "CognitoAdminUser", "AdminsGroup", "UsersGroup",
   "AdminUserGroupAttachment", "CognitoDomain"}

\* The resources x is declared to depend on: those whose identity x's
\* properties refer to (user_pool_id) and those named by add_dependency.
\* group_name is the plain string "admins" and declares nothing.
DependsOn(x) ==
  CASE x = "UserPool" -> {}
    [] x = "AdminUserGroupAttachment" -> {"UserPool", "CognitoAdminUser"}
    [] OTHER -> {"UserPool"}

\* What the creation of x needs to exist in the pool for it to succeed.
Needs(x) ==
  CASE x = "UserPool" -> {}
    [] x = "AdminUserGroupAttachment" ->
         {"UserPool", "CognitoAdminUser", "AdminsGroup"}
    [] OTHER -> {"UserPool"}

Created(x) == stack[x] = "created"

Init ==
  /\ pool = [u \in Usernames |-> Absent]
  /\ pending = {}
  /\ req = [i \in Slots |-> Idle]
  /\ hist = [u \in Usernames |-> "none"]
  /\ stack = [x \in Resources |-> "pending"]

\* A request arrives on a free slot (its body already passed schema validation).
Start(i) ==
  /\ UNCHANGED stack
  /\ req[i].pc \in {"idle", "done"}
  /\ \E r \in Requests : req' = [req EXCEPT ![i] = r]
  /\ UNCHANGED <<pool, pending, hist>>

\* Dependency resolution of an admin-only route: require_admin_user.
Gate(i) ==
  /\ UNCHANGED stack
  /\ req[i].pc = "gate"
  /\ LET g == require_admin_user(req[i].bearer) IN
       req' = IF g.ok
                THEN [req EXCEPT ![i].pc = "handler", ![i].admin_ok = TRUE]
                ELSE [req EXCEPT ![i].pc = "done",
                                 ![i].resp = HTTPException(g.status, <<"Not authorized">>)]
  /\ UNCHANGED <<pool, pending, hist>>

Login(i) ==
  /\ UNCHANGED stack
  /\ req[i].pc = "handler" /\ req[i].kind = "login"
  /\ LET call == login_call(req[i]) IN
     \E s \in IssuedSessions :
     \E out \in Outcomes(cognito_admin_initiate_auth(pool, pending, call.username,
                                                     call.password, s)) :
       /\ out.pending # pending => s \in FreeSessions(pending)
       /\ Respond(i, call, out, login_for_access_token(req[i], out))
  /\ UNCHANGED hist

LegacyLogin(i) ==
  /\ UNCHANGED stack
  /\ req[i].pc = "handler" /\ req[i].kind = "legacy_login"
  /\ LET call == legacy_login_call(req[i]) IN
     \E s \in IssuedSessions :
     \E out \in Outcomes(cognito_admin_initiate_auth(pool, pending, call.username,
                                                     call.password, s)) :
       /\ out.pending # pending => s \in FreeSessions(pending)
       /\ Respond(i, call, out, legacy_login_for_access_token(req[i], out))
  /\ UNCHANGED hist

RespondToChallenge(i) ==
  /\ UNCHANGED stack
  /\ req[i].pc = "handler" /\ req[i].kind = "respond_to_challenge"
  /\ LET call == respond_to_challenge_call(req[i]) IN
     \E out \in Outcomes(cognito_admin_respond_to_auth_challenge(
                           pool, pending, call.username, call.session, call.password)) :
       Respond(i, call, out, respond_to_challenge(req[i], out))
  /\ UNCHANGED hist

\* signup, first adapter call: create the user.
SignupCreate(i) ==
  /\ UNCHANGED stack
  /\ req[i].pc = "handler" /\ req[i].kind = "signup"
  /\ LET call == admin_create_user_call(req[i]) IN
     \E out \in Outcomes(cognito_admin_create_user(pool, pending, call.username,
                                                   call.password)) :
       IF ~admin_create_user_proceeds(out.exc)
         THEN /\ Respond(i, call, out, admin_create_user_except(req[i], out.exc))
              /\ UNCHANGED hist
         ELSE /\ req' = [req EXCEPT ![i].pc = "attach", ![i].calls = Append(@, call),
                                    ![i].excs = Append(@, out.exc), ![i].exc = out.exc,
                                    ![i].ret = out.value, ![i].user_info = out.value,
                                    ![i].pre = Snapshot(req[i])]
              /\ pool' = out.pool
              /\ pending' = out.pending
              /\ hist' = IF out.exc = NoExc
                           THEN [hist EXCEPT ![call.username] = "none"]
                           ELSE hist

\* signup, second adapter call: attach the user to the group, then answer 201.
SignupAttach(i) ==
  /\ UNCHANGED stack
  /\ req[i].pc = "attach"
  /\ LET call == admin_add_user_to_group_call(req[i]) IN
     \E out \in Outcomes(cognito_admin_add_user_to_group(pool, pending, call.username,
                                                         call.group)) :
       IF out.exc # NoExc
         THEN /\ Respond(i, call, out, admin_create_user_except(req[i], out.exc))
              /\ UNCHANGED hist
         ELSE /\ Respond(i, call, out, admin_create_user_return(req[i], req[i].user_info))
              /\ hist' = [hist EXCEPT ![req[i].username] = "signup201"]

DeleteUser(i) ==
  /\ UNCHANGED stack
  /\ req[i].pc = "handler" /\ req[i].kind = "delete_user"
  /\ LET call == admin_delete_user_call(req[i]) IN
     \E out \in Outcomes(cognito_admin_delete_user(pool, pending, call.username)) :
       LET resp == admin_delete_user(req[i], out) IN
       /\ Respond(i, call, out, resp)
       /\ hist' = IF resp.status = 204
                    THEN [hist EXCEPT ![req[i].username] = "deleted204"]
                    ELSE hist

ListUsers(i) ==
  /\ UNCHANGED stack
  /\ req[i].pc = "handler" /\ req[i].kind = "list_users"
  /\ LET call == admin_list_users_call(req[i]) IN
     \E out \in Outcomes(cognito_admin_list_users(pool, pending)) :
       Respond(i, call, out, admin_list_users(req[i], out))
  /\ UNCHANGED hist

\* The provider forgets an outstanding challenge session (sessions expire).
ExpireSession ==
  /\ UNCHANGED stack
  /\ \E c \in pending : pending' = pending \ {c}
  /\ UNCHANGED <<pool, req, hist>>

Next ==
  \/ \E i \in Slots : Start(i)
  \/ \E i \in Slots : Gate(i)
  \/ \E i \in Slots : Login(i)
  \/ \E i \in Slots : LegacyLogin(i)
  \/ \E i \in Slots : RespondToChallenge(i)
  \/ \E i \in Slots : SignupCreate(i)
  \/ \E i \in Slots : SignupAttach(i)
  \/ \E i \in Slots : DeleteUser(i)
  \/ \E i \in Slots : ListUsers(i)
  \/ ExpireSession

Spec == Init /\ [][Next]_vars

(***************************************************************************)
(* Properties                                                              *)
(***************************************************************************)
Done(i) == req[i].pc = "done"
AdminOnly(r) == r.kind \in {"signup", "delete_user", "list_users"}

IsTokenBundle(b) == DOMAIN b = {"AccessToken", "IdToken", "RefreshToken"}
IsChallengeState(b) ==
  /\ DOMAIN b = {"ChallengeName", "Session", "username"}
  /\ b.ChallengeName = "NEW_PASSWORD_REQUIRED"
\* The token bundle a body carries, bare or under AuthenticationResult.
BundleOf(b) ==
  IF IsTokenBundle(b) THEN b
  ELSE IF "AuthenticationResult" \in DOMAIN b THEN b.AuthenticationResult
  ELSE None
CarriesTokens(b) == IsTokenBundle(BundleOf(b))
Principal(b) == BundleOf(b).AccessToken[2]

\* The adapter answered the request's call with a NEW_PASSWORD_REQUIRED challenge.
Challenged(r) ==
  /\ r.exc = NoExc
  /\ "ChallengeName" \in DOMAIN r.ret
  /\ r.ret.ChallengeName = "NEW_PASSWORD_REQUIRED"
\* The adapter answered the request's call with tokens.
Accepted(r) == r.exc = NoExc /\ "AuthenticationResult" \in DOMAIN r.ret

\* C1: an admin-only request without a valid admin bearer credential makes no
\* adapter call and ends with 401 or 403; and no admin-only request makes an
\* adapter call before the authorization gate has let it through.
C1_AdminGateBeforeAdapter ==
  \A i \in Slots :
    LET r == req[i] IN
    AdminOnly(r) =>
      /\ r.bearer # "admin" =>
           /\ r.calls = <<>>
           /\ Done(i) => r.resp.status \in {401, 403}
      /\ r.calls # <<>> => r.admin_ok

C1_Witness ==
  \E i \in Slots :
    /\ req[i].kind = "delete_user" /\ req[i].bearer = "user" /\ Done(i)
    /\ req[i].resp.status = 403 /\ req[i].calls = <<>>

\* C2: a challenge response whose (username, session) is not an outstanding pair
\* issued by a login challenge never gets 200; a 200 carries tokens of the
\* request's own username; and tokens are only ever returned by a login the
\* provider accepted or by a challenge response with a matching pair.
C2_ChallengeBoundToPrincipal ==
  \A i \in Slots :
    LET r == req[i] IN
    Done(i) =>
      /\ r.kind = "respond_to_challenge" =>
           /\ ~r.pre.matched => r.resp.status # 200
           /\ r.resp.status = 200 =>
                r.pre.matched /\ CarriesTokens(r.resp.body)
                  /\ Principal(r.resp.body) = r.username
      /\ CarriesTokens(r.resp.body) =>
           /\ r.kind \in {"login", "legacy_login", "respond_to_challenge"}
           /\ Principal(r.resp.body) = r.username
           /\ r.kind = "respond_to_challenge" => r.pre.matched
           /\ r.kind \in {"login", "legacy_login"} => Accepted(r)

C2_Witness ==
  \E i \in Slots :
    /\ req[i].kind = "respond_to_challenge" /\ Done(i)
    /\ ~req[i].pre.matched /\ req[i].session \in IssuedSessions
    /\ \E u \in Usernames : u # req[i].username /\ <<u, req[i].session>> \in pending
    /\ req[i].resp.status = 400

\* C3: when the provider answers a login with NEW_PASSWORD_REQUIRED, /auth/login
\* returns 200 with a challenge body naming the request's username and carrying
\* a non-empty session token.
C3_ChallengeIsA200 ==
  \A i \in Slots :
    LET r == req[i] IN
    (Done(i) /\ r.kind = "login" /\ Challenged(r)) =>
      /\ r.resp.status = 200
      /\ IsChallengeState(r.resp.body)
      /\ r.resp.body.username = r.username
      /\ r.resp.body.Session # NoSession

C3_Witness ==
  \E i \in Slots :
    /\ Done(i) /\ req[i].kind = "login" /\ Challenged(req[i])
    /\ req[i].resp.status = 200

\* C4: a 200 from /auth/login carries exactly one of a token bundle and a
\* challenge state, and a login the provider accepted carries the token bundle.
C4_ExactlyOneShape ==
  \A i \in Slots :
    LET r == req[i] IN
    (Done(i) /\ r.kind = "login") =>
      /\ r.resp.status = 200 =>
           IsTokenBundle(r.resp.body) # IsChallengeState(r.resp.body)
      /\ Accepted(r) => r.resp.status = 200 /\ IsTokenBundle(r.resp.body)

C4_Witness ==
  \E i \in Slots :
    /\ Done(i) /\ req[i].kind = "login" /\ Accepted(req[i])
    /\ IsTokenBundle(req[i].resp.body)

\* C5: the session in the /auth/login challenge body is the one the provider
\* returned, and respond-to-challenge hands the adapter the request's own
\* username and session.
C5_SessionPassedThrough ==
  \A i \in Slots :
    LET r == req[i] IN
    /\ (Done(i) /\ r.kind = "login" /\ Challenged(r)) =>
         r.resp.body.Session = r.ret.Session
    /\ (r.kind = "respond_to_challenge" /\ r.calls # <<>>) =>
         /\ Len(r.calls) = 1
         /\ r.calls[1].op = "admin_respond_to_auth_challenge"
         /\ r.calls[1].username = r.username
         /\ r.calls[1].session = r.session

C5_Witness ==
  \E i \in Slots :
    /\ req[i].kind = "respond_to_challenge" /\ Done(i)
    /\ req[i].pre.matched /\ req[i].resp.status = 200
    /\ req[i].calls[1].session = req[i].session

\* An authorized request of the given kind that has been answered.
Answered(i, kind) == Done(i) /\ req[i].kind = kind /\ req[i].bearer = "admin"

\* C6 as stated: of two successive authorized signups with one username that did
\* not exist beforehand, the first returns 201 and the second 409.
C6_SignupTwice_AsStated ==
  \A i \in Slots :
    LET r == req[i] IN
    Answered(i, "signup") =>
      /\ ~r.pre.exists => r.resp.status = 201
      /\ r.pre.hist = "signup201" => r.resp.status = 409

\* C6 (amended): of two successive authorized signups with one username that did
\* not exist beforehand, the first returns 201 and the second 409, unless an
\* adapter call of the request fails with an uncategorised error, in which case
\* the request returns 500.
C6_SignupTwice ==
  \A i \in Slots :
    LET r == req[i] IN
    Answered(i, "signup") =>
      IF r.exc \in Faults
        THEN r.resp.status = 500
        ELSE /\ ~r.pre.exists => r.resp.status = 201
             /\ r.pre.hist = "signup201" => r.resp.status = 409

C6_Witness ==
  \E i \in Slots :
    /\ Answered(i, "signup") /\ req[i].pre.hist = "signup201"
    /\ req[i].exc \notin Faults /\ req[i].resp.status = 409

\* C7 as stated: an authorized delete-user of a username that does not exist
\* returns 404; and a user list never includes a username whose deletion
\* returned 204, unless the user was created again since.
C7_DeleteThenList_AsStated ==
  \A i \in Slots :
    LET r == req[i] IN
    /\ (Answered(i, "delete_user") /\ ~r.pre.exists) => r.resp.status = 404
    /\ (Answered(i, "list_users") /\ r.resp.status = 200) =>
         \A u \in r.resp.body.users : hist[u] # "deleted204"

\* C7 (amended): an authorized delete-user of a username that does not exist
\* returns 404, or 500 when the adapter call fails with an uncategorised error;
\* and a user list never includes a username whose deletion returned 204,
\* unless the user was created again since.
C7_DeleteThenList ==
  \A i \in Slots :
    LET r == req[i] IN
    /\ (Answered(i, "delete_user") /\ ~r.pre.exists) =>
         r.resp.status = IF r.exc \in Faults THEN 500 ELSE 404
    /\ (Answered(i, "list_users") /\ r.resp.status = 200) =>
         \A u \in r.resp.body.users : hist[u] # "deleted204"

C7_Witness ==
  \E i \in Slots : \E u \in Usernames :
    /\ Answered(i, "list_users") /\ req[i].resp.status = 200
    /\ hist[u] = "deleted204" /\ u \notin req[i].resp.body.users
    /\ req[i].resp.body.users # {}

\* The text of exception e appears in the message.
Leaks(detail, e) == \E k \in 1..Len(detail) : detail[k] = Str(e)

\* C8: in every handler an adapter exception outside the four categorised ones
\* is answered with 500 and a message that holds no text of the exception.
C8_UncategorisedIs500 ==
  \A i \in Slots :
    LET r == req[i] IN
    (Done(i) /\ r.exc \in Faults) =>
      r.resp.status = 500 /\ ~Leaks(r.resp.detail, r.exc)

TaxonomyStatuses == {200, 201, 204, 400, 401, 403, 404, 409, 500}

\* C9: no exception leaves a handler: every answered request ends with a status
\* of the taxonomy that the handler itself produced, and respond-to-challenge
\* ends with 200 and a token bundle or with 400.
C9_NothingPropagates ==
  \A i \in Slots :
    LET r == req[i] IN
    Done(i) =>
      /\ ~r.resp.uncaught
      /\ r.resp.status \in TaxonomyStatuses
      /\ r.kind = "respond_to_challenge" =>
           \/ r.resp.status = 200 /\ CarriesTokens(r.resp.body)
           \/ r.resp.status = 400

\* C10: the legacy /login returns 401 whenever the adapter's initiate-auth call
\* fails, and each of its 200 responses carries a token bundle.
C10_LegacyLoginTokensOnly ==
  \A i \in Slots :
    LET r == req[i] IN
    (Done(i) /\ r.kind = "legacy_login") =>
      /\ r.exc # NoExc => r.resp.status = 401
      /\ r.resp.status = 200 => CarriesTokens(r.resp.body)

\* The adapter operations a request has invoked, in order.
Ops(r) == [k \in 1..Len(r.calls) |-> r.calls[k].op]

\* C11: within one request each adapter operation is invoked at most once, no
\* adapter call follows a failed one, and a failed call ends the request at once
\* with an error response.
C11_NoRetries ==
  \A i \in Slots :
    LET r == req[i] IN
    /\ \A k, l \in 1..Len(r.calls) : k # l => r.calls[k].op # r.calls[l].op
    /\ \A k \in 1..Len(r.calls) - 1 : r.excs[k] = NoExc
    /\ (r.calls # <<>> /\ r.excs[Len(r.calls)] # NoExc) =>
         Done(i) /\ r.resp.status >= 400

C11_Witness ==
  \E i \in Slots :
    /\ Done(i) /\ req[i].kind = "signup"
    /\ Ops(req[i]) = <<"admin_create_user", "admin_add_user_to_group">>
    /\ req[i].excs[1] = NoExc /\ req[i].excs[2] \in Faults
    /\ req[i].resp.status = 500

\* The signup request r has created its user in the provider.
CreatedUser(r) ==
  /\ r.kind = "signup" /\ r.calls # <<>>
  /\ r.calls[1].op = "admin_create_user" /\ r.excs[1] = NoExc

\* C13: signup calls admin_create_user before admin_add_user_to_group and never
\* attaches after a failed creation; it answers 201 only when both succeeded;
\* and a signup answered with anything but 201 has created no user, so every
\* user a completed signup created is a member of the requested group.
C13_SignupNoPartialEffect ==
  \A i \in Slots :
    LET r == req[i] IN
    r.kind = "signup" =>
      /\ Ops(r) \in {<<>>, <<"admin_create_user">>,
                     <<"admin_create_user", "admin_add_user_to_group">>}
      /\ Len(r.calls) = 2 => r.excs[1] = NoExc
      /\ (Done(i) /\ r.resp.status = 201) =>
           Len(r.calls) = 2 /\ r.excs = <<NoExc, NoExc>>
      /\ (Done(i) /\ r.resp.status # 201) => ~CreatedUser(r)
      /\ (Done(i) /\ CreatedUser(r)) =>
           r.user_group \in pool[r.username].groups

(***************************************************************************)
(* Concurrent requests: two requests in flight, their adapter calls         *)
(* interleaved; the provider performs each call atomically                  *)
(***************************************************************************)
ConcSlots == {1, 2}

\* The administrative requests of an admin caller.
ConcRequests ==
  {r \in SignupRequests : r.bearer = "admin" /\ r.password = "pw1"}
    \cup {r \in DeleteRequests : r.bearer = "admin"}
    \cup {r \in ListRequests : r.bearer = "admin"}

ConcInit ==
  /\ pool = [u \in Usernames |-> Absent]
  /\ pending = {}
  /\ req = [i \in ConcSlots |-> Idle]
  /\ hist = [u \in Usernames |-> "none"]
  /\ stack = [x \in Resources |-> "pending"]

ConcStart(i) ==
  /\ UNCHANGED stack
  /\ req[i].pc \in {"idle", "done"}
  /\ \E r \in ConcRequests : req' = [req EXCEPT ![i] = r]
  /\ UNCHANGED <<pool, pending, hist>>

ConcNext ==
  \/ \E i \in ConcSlots : ConcStart(i)
  \/ \E i \in ConcSlots : Gate(i)
  \/ \E i \in ConcSlots : SignupCreate(i)
  \/ \E i \in ConcSlots : SignupAttach(i)
  \/ \E i \in ConcSlots : DeleteUser(i)
  \/ \E i \in ConcSlots : ListUsers(i)

ConcSpec == ConcInit /\ [][ConcNext]_vars

\* Each answer agrees with what the provider held when the request's first
\* adapter call was performed.
AnswerFitsProvider(r) ==
  /\ (r.kind = "signup" /\ r.resp.status = 201) => ~r.pre.exists
  /\ (r.kind = "signup" /\ r.resp.status = 409) => r.pre.exists
  /\ (r.kind = "delete_user" /\ r.resp.status = 204) => r.pre.exists
  /\ (r.kind = "delete_user" /\ r.resp.status = 404) => ~r.pre.exists

\* Two answered signups for one username both returned 201.
BothCreated(i, j) ==
  /\ i # j
  /\ req[i].pc = "done" /\ req[j].pc = "done"
  /\ req[i].kind = "signup" /\ req[j].kind = "signup"
  /\ req[i].username = req[j].username
  /\ req[i].resp.status = 201 /\ req[j].resp.status = 201

C12_Isolated ==
  \A i \in ConcSlots :
    /\ req[i].pc = "done" => AnswerFitsProvider(req[i])
    /\ \A j \in ConcSlots :
         BothCreated(i, j) =>
           req[i].pre.hist = "deleted204" \/ req[j].pre.hist = "deleted204"

BeginCreate(x) ==
  /\ stack[x] = "pending"
  /\ \A d \in DependsOn(x) : Created(d)
  /\ \A y \in Resources : stack[y] # "failed"
  /\ stack' = [stack EXCEPT ![x] = "creating"]
  /\ UNCHANGED <<pool, pending, req, hist>>

\* The creation of x ends; it fails when something it needs does not exist.
EndCreate(x) ==
  /\ stack[x] = "creating"
  /\ stack' = [stack EXCEPT ![x] = IF \A d \in Needs(x) : Created(d)
                                     THEN "created" ELSE "failed"]
  /\ UNCHANGED <<pool, pending, req, hist>>

DeployNext ==
  \/ \E x \in Resources : BeginCreate(x)
  \/ \E x \in Resources : EndCreate(x)

DeploySpec == Init /\ [][DeployNext]_vars

\* C14: in every deployment order the declared dependencies allow, the
\* attachment of the admin user to the 'admins' group is performed only after
\* both the admin user and the 'admins' group have been created.
C14_AttachmentAfterUserAndGroup ==
  stack["AdminUserGroupAttachment"] # "pending" =>
    Created("CognitoAdminUser") /\ Created("AdminsGroup")

====
